---- MODULE Spec2Model ----
(***************************************************************************)
(* The trivia API of backend/flaskr/__init__.py as a state machine.  The   *)
(* state is the relational store (questions, categories, the id sequence)  *)
(* and the last request served with its response; every route handler is  *)
(* one action.  Texts are sequences of one-character strings so that the   *)
(* ILIKE match and str() are computed and not assumed.                      *)
(***************************************************************************)
EXTENDS Integers, Sequences, FiniteSets, TLC

VARIABLES
  questions,    \* the rows of the questions table: a set of Question records
  categories,   \* the rows of the categories table: a set of [id, type]
  next_id,      \* the next value of the questions id sequence
  served,       \* how many requests have been served
  request,      \* the last request: [op, ...]
  response,     \* the response to it
  pag,          \* one call of paginate_questions on its own: [selection, page, result, called]
  session       \* one quiz session of a caller: [quiz_category, previous_questions, asked, nulls, last]

vars == <<questions, categories, next_id, served, request, response, pag, session>>

----------------------------------------------------------------------------
(* Bounds of the model.                                                    *)

\* requests served in one behaviour
MaxRequests == 2
\* the 'page' query parameter ranges over (1 - MaxBack) .. MaxPage, or is absent
MaxBack == 2
MaxPage == 3
\* rows of the small seeded store
SmallSeed == 2
\* previous_questions of a quiz request name ids up to MaxPrev
MaxPrev == 2
\* lists handed to paginate_questions on its own have up to MaxSelection rows
MaxSelection == 22
\* a quiz session runs on a store of up to MaxSessionStore rows
MaxSessionStore == 4
\* calls a session makes after it has received null
MaxNullCalls == 2

QUESTIONS_PER_PAGE == 10

----------------------------------------------------------------------------
(* Optional values (a key of a dict or a query parameter that may be       *)
(* absent, a JSON null): the empty sequence or a one-element sequence.      *)

None == <<>>
Some(v) == <<v>>
IsSome(o) == Len(o) = 1
Value(o) == o[1]

Max(a, b) == IF a >= b THEN a ELSE b
Min(a, b) == IF a <= b THEN a ELSE b

\* a finite set of integers as the ascending list of its elements
RECURSIVE SortedSeq(_)
SortedSeq(S) ==
  IF S = {} THEN <<>>
  ELSE LET m == CHOOSE x \in S : \A y \in S : x <= y
       IN <<m>> \o SortedSeq(S \ {m})

Range(s) == {s[i] : i \in 1..Len(s)}

----------------------------------------------------------------------------
(* Texts.                                                                  *)

Digit == <<"0", "1", "2", "3", "4", "5", "6", "7", "8", "9">>

\* Python's str() of a non-negative int: its decimal digits
RECURSIVE str(_)
str(n) ==
  IF n < 10 THEN <<Digit[n + 1]>>
  ELSE str(n \div 10) \o <<Digit[(n % 10) + 1]>>

lower(c) ==
  CASE c = "A" -> "a"
    [] c = "B" -> "b"
    [] c = "C" -> "c"
    [] c = "Z" -> "z"
    [] OTHER -> c

Lower(t) == [i \in 1..Len(t) |-> lower(t[i])]

\* SQL LIKE: % matches any run of characters, _ any one character, and a
\* backslash makes the character after it literal
RECURSIVE Like(_, _)
Like(s, p) ==
  IF p = <<>> THEN s = <<>>
  ELSE IF Head(p) = "%" THEN
    Like(s, Tail(p)) \/ (s # <<>> /\ Like(Tail(s), p))
  ELSE IF Head(p) = "_" THEN
    s # <<>> /\ Like(Tail(s), Tail(p))
  ELSE IF Head(p) = "\\" /\ Len(p) >= 2 THEN
    s # <<>> /\ Head(s) = p[2] /\ Like(Tail(s), Tail(Tail(p)))
  ELSE
    s # <<>> /\ Head(s) = Head(p) /\ Like(Tail(s), Tail(p))

\* column.ilike(pattern): LIKE with both sides folded to one case
ilike(s, p) == Like(Lower(s), Lower(p))

----------------------------------------------------------------------------
(* JSON scalars of a request body: an integer or a string.                 *)

JInt(n) == [kind |-> "int", int |-> n, text |-> <<>>]
JStr(t) == [kind |-> "str", int |-> 0, text |-> t]

----------------------------------------------------------------------------
(* The store.                                                              *)

Question(id, question, answer, category, difficulty) ==
  [id |-> id, question |-> question, answer |-> answer,
   category |-> category, difficulty |-> difficulty]

\* Question.format(): the row as a dict
format(q) ==
  [id |-> q.id, question |-> q.question, answer |-> q.answer,
   category |-> q.category, difficulty |-> q.difficulty]

SeedText(i) ==
  CASE i % 3 = 0 -> <<"A", "b">>
    [] i % 3 = 1 -> <<"b", "a">>
    [] OTHER -> <<"C", "a">>

\* categories 1 and 2 are seeded; 7 is a category no row of categories has
SeedCategory(i) ==
  CASE i % 4 = 0 -> str(7)
    [] i % 2 = 1 -> str(1)
    [] OTHER -> str(2)

SeedQuestion(i) == Question(i, SeedText(i), <<"x">>, SeedCategory(i), 1 + (i % 5))

SeedStore(n) == {SeedQuestion(i) : i \in 1..n}

SeedCategories == {[id |-> 1, type |-> "Science"], [id |-> 2, type |-> "Art"]}

\* query.order_by(Question.id).all(): the rows as a list, by ascending id;
\* a query without order_by is taken to return its rows in that order too
RECURSIVE OrderById(_)
OrderById(rows) ==
  IF rows = {} THEN <<>>
  ELSE LET first == CHOOSE q \in rows : \A r \in rows : q.id <= r.id
       IN <<first>> \o OrderById(rows \ {first})

----------------------------------------------------------------------------
(* paginate_questions                                                      *)

\* Python's seq[start:end]: a negative index counts from the end, and both
\* indexes are clamped to the list
PyIndex(n, i) == IF i < 0 THEN Max(n + i, 0) ELSE Min(i, n)

PySlice(s, start, end) ==
  LET lo == PyIndex(Len(s), start)
      hi == PyIndex(Len(s), end)
  IN IF lo < hi THEN [i \in 1..(hi - lo) |-> s[lo + i]] ELSE <<>>

\* request.args.get('page', 1, type=int)
PageOf(args) == IF IsSome(args) THEN Value(args) ELSE 1

paginate_questions(args, selection) ==
  LET page == PageOf(args)
      start == (page - 1) * QUESTIONS_PER_PAGE
      end == start + QUESTIONS_PER_PAGE
      formatted == [i \in 1..Len(selection) |-> format(selection[i])]
  IN PySlice(formatted, start, end)

----------------------------------------------------------------------------
(* Responses.                                                              *)

NoResponse ==
  [status |-> 0, created |-> 0, deleted |-> 0, questions |-> <<>>,
   total_questions |-> 0, categories |-> {}, currentCategory |-> None,
   question |-> None]

\* jsonify(...) of a handler that returns: status 200
Ok(fields) == ([status |-> 200] @@ fields) @@ NoResponse

\* abort(code), answered by the error handler of that code
abort(code) == [NoResponse EXCEPT !.status = code]

\* {category.id: category.type for category in categories}
CategoryMap(rows) == {<<c.id, c.type>> : c \in rows}

\* what a handler leaves behind: its response and the store after it
Outcome(resp, rows, seq) == [response |-> resp, questions |-> rows, next_id |-> seq]

----------------------------------------------------------------------------
(* Question.insert() and Question.delete() of backend/models.py.           *)

\* the value a JSON scalar takes in a string column
AsText(j) == IF j.kind = "int" THEN str(j.int) ELSE j.text

\* an integer column takes an integer; the store rejects a text that is
\* no integer literal
IsDigits(t) == t # <<>> /\ \A i \in 1..Len(t) : t[i] \in Range(Digit)
IntegerColumnAccepts(j) == j.kind = "int" \/ IsDigits(j.text)

RECURSIVE ParseInt(_)
ParseInt(t) ==
  IF t = <<>> THEN 0
  ELSE 10 * ParseInt(SubSeq(t, 1, Len(t) - 1))
       + (CHOOSE d \in 0..9 : Digit[d + 1] = t[Len(t)])

AsInteger(j) == IF j.kind = "int" THEN j.int ELSE ParseInt(j.text)

\* insert(): add and commit; the row gets the next id of the sequence
insert(rows, seq, question, answer, category, difficulty) ==
  rows \cup {Question(seq, question, answer, AsText(category), AsInteger(difficulty))}

\* delete(): delete and commit
delete(rows, row) == rows \ {row}

----------------------------------------------------------------------------
(* The route handlers.                                                     *)

retrieve_categories ==
  IF Cardinality(categories) = 0 THEN abort(404)
  ELSE Ok([categories |-> CategoryMap(categories)])

\* retrieve_questions without the check of the page's length
retrieve_questions_unchecked(args) ==
  LET all == OrderById(questions)
  IN Ok([questions |-> paginate_questions(args, all),
         total_questions |-> Len(all),
         categories |-> CategoryMap(categories),
         currentCategory |-> None])

retrieve_questions(args) ==
  LET all == OrderById(questions)
      current_questions == paginate_questions(args, all)
  IN IF Len(current_questions) = 0 THEN abort(404)
     ELSE Ok([questions |-> current_questions,
              total_questions |-> Len(all),
              categories |-> CategoryMap(categories),
              currentCategory |-> None])

\* delete_question that answers without having deleted the row
delete_question_kept(question_id) ==
  IF question_id \notin {q.id : q \in questions}
  THEN Outcome(abort(422), questions, next_id)
  ELSE Outcome(Ok([deleted |-> question_id]), questions, next_id)

\* .one() raises unless exactly one row matches; the bare except answers 422
delete_question(question_id) ==
  LET found == {q \in questions : q.id = question_id}
  IN IF Cardinality(found) # 1
     THEN Outcome(abort(422), questions, next_id)
     ELSE LET question_obj == CHOOSE q \in found : TRUE
          IN Outcome(Ok([deleted |-> question_id]),
                     delete(questions, question_obj), next_id)

AddFields == {"question", "answer", "category", "difficulty"}

\* the row add_question builds from a body, a missing field taken as empty
RowOf(seq, body) ==
  Question(seq,
           IF IsSome(body.question) THEN Value(body.question) ELSE <<>>,
           IF IsSome(body.answer) THEN Value(body.answer) ELSE <<>>,
           IF IsSome(body.category) THEN AsText(Value(body.category)) ELSE <<>>,
           IF IsSome(body.difficulty) /\ IntegerColumnAccepts(Value(body.difficulty))
           THEN AsInteger(Value(body.difficulty)) ELSE 0)

\* add_question that counts the questions before the insert
add_question_stale_total(args, body) ==
  IF ~(\A k \in AddFields : IsSome(body[k])) \/ ~IntegerColumnAccepts(Value(body.difficulty))
  THEN Outcome(abort(422), questions, next_id)
  ELSE LET stored == questions \cup {RowOf(next_id, body)}
       IN Outcome(Ok([created |-> next_id,
                      questions |-> paginate_questions(args, OrderById(stored)),
                      total_questions |-> Cardinality(questions)]),
                  stored, next_id + 1)

\* add_question that asks for any of the four fields instead of all of them
add_question_any_field(args, body) ==
  IF ~(\E k \in AddFields : IsSome(body[k]))
  THEN Outcome(abort(422), questions, next_id)
  ELSE LET stored == questions \cup {RowOf(next_id, body)}
       IN Outcome(Ok([created |-> next_id,
                      questions |-> paginate_questions(args, OrderById(stored)),
                      total_questions |-> Cardinality(stored)]),
                  stored, next_id + 1)

\* add_question that answers 422 for a row the store refused and leaves a
\* row behind
add_question_no_rollback(args, body) ==
  IF ~(\A k \in AddFields : IsSome(body[k]))
  THEN Outcome(abort(422), questions, next_id)
  ELSE LET stored == questions \cup {RowOf(next_id, body)}
       IN IF ~IntegerColumnAccepts(Value(body.difficulty))
          THEN Outcome(abort(422), stored, next_id + 1)
          ELSE Outcome(Ok([created |-> next_id,
                           questions |-> paginate_questions(args, OrderById(stored)),
                           total_questions |-> Cardinality(stored)]),
                       stored, next_id + 1)

add_question(args, body) ==
  IF ~(\A k \in AddFields : IsSome(body[k]))
  THEN Outcome(abort(422), questions, next_id)
  ELSE IF ~IntegerColumnAccepts(Value(body.difficulty))
  THEN \* insert() raises: rollback() and abort(422)
       Outcome(abort(422), questions, next_id)
  ELSE LET stored == insert(questions, next_id, Value(body.question),
                            Value(body.answer), Value(body.category),
                            Value(body.difficulty))
           all == OrderById(stored)
       IN Outcome(Ok([created |-> next_id,
                      questions |-> paginate_questions(args, all),
                      total_questions |-> Len(all)]),
                  stored, next_id + 1)

\* Question.question.ilike("%" + search_term + "%")
SearchMatches(search_term) ==
  {q \in questions : ilike(q.question, <<"%">> \o search_term \o <<"%">>)}

search_questions(args, body) ==
  LET search_term == body.searchTerm
  IN IF IsSome(search_term) /\ Value(search_term) # <<>>
     THEN LET questions_obj == OrderById(SearchMatches(Value(search_term)))
          IN IF Len(questions_obj) = 0 THEN abort(404)
             ELSE Ok([questions |-> paginate_questions(args, questions_obj),
                      total_questions |-> Len(questions_obj),
                      currentCategory |-> None])
     ELSE abort(404)

\* Question.category == str(category_id)
QuestionsOfCategory(category_id) ==
  {q \in questions : q.category = str(category_id)}

\* retrieve_questions_by_category without the check of the category id
retrieve_questions_by_category_unchecked(args, category_id) ==
  LET questions_obj == OrderById(QuestionsOfCategory(category_id))
  IN Ok([questions |-> paginate_questions(args, questions_obj),
         total_questions |-> Len(questions_obj),
         currentCategory |-> Some(category_id)])

retrieve_questions_by_category(args, category_id) ==
  LET category_ids == {c.id : c \in categories}
  IN IF category_id \notin category_ids THEN abort(404)
     ELSE LET questions_obj == OrderById(QuestionsOfCategory(category_id))
          IN Ok([questions |-> paginate_questions(args, questions_obj),
                 total_questions |-> Len(questions_obj),
                 currentCategory |-> Some(category_id)])

\* random.randrange(a, b): any of a, ..., b - 1
randrange(a, b) == a..(b - 1)

\* the available questions without the category filter
AvailableQuestions_any_category(previous_questions, quiz_category) ==
  {q \in questions : q.id \notin Range(previous_questions)}

\* Question.id.notin_(previous_questions), with the category filter unless
\* the category type is 'click'
AvailableQuestions(previous_questions, quiz_category) ==
  IF Value(quiz_category.type) = "click"
  THEN {q \in questions : q.id \notin Range(previous_questions)}
  ELSE {q \in questions : /\ q.category = Value(quiz_category.id)
                          /\ q.id \notin Range(previous_questions)}

\* play_quiz that draws without looking at the number of available
\* questions: randrange(0, 0) raises, and the bare except answers 422
play_quiz_unchecked(body) ==
  IF ~(IsSome(body.previous_questions) /\ IsSome(body.quiz_category))
  THEN {abort(422)}
  ELSE LET previous_questions == Value(body.previous_questions)
           quiz_category == Value(body.quiz_category)
       IN IF ~IsSome(quiz_category.type)
          THEN {abort(422)}
          ELSE IF Value(quiz_category.type) # "click" /\ ~IsSome(quiz_category.id)
          THEN {abort(422)}
          ELSE LET available_questions ==
                     OrderById(AvailableQuestions(previous_questions, quiz_category))
                   n == Len(available_questions)
               IN IF n > 0
                  THEN {Ok([question |-> Some(format(available_questions[r + 1]))]) :
                          r \in randrange(0, n)}
                  ELSE {abort(422)}

\* the responses play_quiz can give: one for each value randrange can draw
play_quiz(body) ==
  IF ~(IsSome(body.previous_questions) /\ IsSome(body.quiz_category))
  THEN {abort(422)}
  ELSE LET previous_questions == Value(body.previous_questions)
           quiz_category == Value(body.quiz_category)
       IN IF ~IsSome(quiz_category.type)
          THEN {abort(422)}   \* quiz_category['type'] raises KeyError
          ELSE IF Value(quiz_category.type) # "click" /\ ~IsSome(quiz_category.id)
          THEN {abort(422)}   \* quiz_category['id'] raises KeyError
          ELSE LET available_questions ==
                     OrderById(AvailableQuestions(previous_questions, quiz_category))
                   n == Len(available_questions)
               IN IF n > 0
                  THEN {Ok([question |-> Some(format(available_questions[r + 1]))]) :
                          r \in randrange(0, n)}
                  ELSE {Ok([question |-> None])}

----------------------------------------------------------------------------
(* The requests the model sends.                                           *)

PageArgs == {None} \cup {Some(p) : p \in (1 - MaxBack)..MaxPage}

\* <int:question_id> takes the non-negative integers
QuestionIds == 0..(QUESTIONS_PER_PAGE + 1 + MaxRequests)

\* 1 and 2 are seeded categories, 3 a seeded category without questions,
\* 7 the category of some questions and of no row of categories
RouteCategoryIds == {1, 2, 3, 7}

\* POST /questions reads 'page' as well: absent, or the last page the model asks for
AddPageArgs == {None, Some(MaxPage)}

AddBodies ==
  [question : {None, Some(<<"b", "c">>)},
   answer : {None, Some(<<"y">>)},
   category : {None, Some(JInt(1))},
   difficulty : {None, Some(JInt(2)), Some(JStr(<<"h">>))}]

SearchBodies ==
  [searchTerm : {None, Some(<<>>), Some(<<"a">>), Some(<<"B">>),
                 Some(<<"_">>), Some(<<"z">>)}]

\* the sentinel category, a category, and two malformed category objects
QuizCategories ==
  {[type |-> Some("click"), id |-> Some(str(0))],
   [type |-> Some("Science"), id |-> Some(str(1))],
   [type |-> None, id |-> Some(str(1))],
   [type |-> Some("Science"), id |-> None]}

\* the lists 1, ..., n of the first n ids, and the list of the id n alone
PreviousQuestions ==
  {SortedSeq(1..n) : n \in 0..MaxPrev} \cup {<<n>> : n \in 1..MaxPrev}

QuizBodies ==
  [previous_questions : {None} \cup {Some(p) : p \in PreviousQuestions},
   quiz_category : {None} \cup {Some(c) : c \in QuizCategories}]

----------------------------------------------------------------------------
(* One call of paginate_questions on its own, and one quiz session: idle   *)
(* while the API serves requests.                                          *)

PagIdle == [selection |-> <<>>, args |-> None, result |-> <<>>, called |-> FALSE]

SessionIdle ==
  [quiz_category |-> [type |-> Some("click"), id |-> None],
   previous_questions |-> <<>>, nulls |-> 0, last |-> NoResponse]

----------------------------------------------------------------------------
(* The API: one action for each route.                                     *)

\* the database as the application finds it: empty, or seeded
Stores ==
  {[questions |-> {}, categories |-> {}, next_id |-> 1]}
  \cup {[questions |-> SeedStore(n),
         categories |-> SeedCategories \cup {[id |-> 3, type |-> "History"]},
         next_id |-> n + 1] : n \in {SmallSeed, QUESTIONS_PER_PAGE + 1}}

Init ==
  /\ \E db \in Stores :
       /\ questions = db.questions
       /\ categories = db.categories
       /\ next_id = db.next_id
  /\ served = 0
  /\ request = [op |-> "none"]
  /\ response = NoResponse
  /\ pag = PagIdle
  /\ session = SessionIdle

\* a request that reads the store
Read(req, resp) ==
  /\ served' = served + 1
  /\ request' = req
  /\ response' = resp
  /\ UNCHANGED <<questions, categories, next_id, pag, session>>

\* a request that may write the questions table
Write(req, out) ==
  /\ served' = served + 1
  /\ request' = req
  /\ response' = out.response
  /\ questions' = out.questions
  /\ next_id' = out.next_id
  /\ UNCHANGED <<categories, pag, session>>

RetrieveCategories ==
  /\ served < MaxRequests
  /\ Read([op |-> "retrieve_categories"], retrieve_categories)

RetrieveQuestions ==
  /\ served < MaxRequests
  /\ \E args \in PageArgs :
       Read([op |-> "retrieve_questions", args |-> args], retrieve_questions(args))

DeleteQuestion ==
  /\ served < MaxRequests
  /\ \E question_id \in QuestionIds :
       Write([op |-> "delete_question", question_id |-> question_id],
             delete_question(question_id))

AddQuestion ==
  /\ served < MaxRequests
  /\ \E args \in AddPageArgs, body \in AddBodies :
       Write([op |-> "add_question", args |-> args, body |-> body],
             add_question(args, body))

SearchQuestions ==
  /\ served < MaxRequests
  /\ \E args \in PageArgs, body \in SearchBodies :
       Read([op |-> "search_questions", args |-> args, body |-> body],
            search_questions(args, body))

RetrieveQuestionsByCategory ==
  /\ served < MaxRequests
  /\ \E args \in PageArgs, category_id \in RouteCategoryIds :
       Read([op |-> "retrieve_questions_by_category", args |-> args,
             category_id |-> category_id],
            retrieve_questions_by_category(args, category_id))

PlayQuiz ==
  /\ served < MaxRequests
  /\ \E body \in QuizBodies :
       \E resp \in play_quiz(body) :
         Read([op |-> "play_quiz", body |-> body], resp)

Next ==
  \/ RetrieveCategories
  \/ RetrieveQuestions
  \/ DeleteQuestion
  \/ AddQuestion
  \/ SearchQuestions
  \/ RetrieveQuestionsByCategory
  \/ PlayQuiz

Spec == Init /\ [][Next]_vars

----------------------------------------------------------------------------
(* paginate_questions on its own: any list of up to MaxSelection rows and   *)
(* any 'page' parameter.                                                    *)

Idle ==
  /\ questions = {}
  /\ categories = {}
  /\ next_id = 1
  /\ served = 0
  /\ request = [op |-> "none"]
  /\ response = NoResponse

InitPaginate ==
  /\ Idle
  /\ session = SessionIdle
  /\ \E n \in 0..MaxSelection, args \in PageArgs :
       pag = [selection |-> OrderById(SeedStore(n)), args |-> args,
              result |-> <<>>, called |-> FALSE]

Paginate ==
  /\ ~pag.called
  /\ pag' = [pag EXCEPT !.result = paginate_questions(pag.args, pag.selection),
                        !.called = TRUE]
  /\ UNCHANGED <<questions, categories, next_id, served, request, response, session>>

SpecPaginate == InitPaginate /\ [][Paginate]_vars

----------------------------------------------------------------------------
(* A quiz session: the store and quiz_category stay as they are, and the   *)
(* caller posts to /quizzes, appends the id of the question it gets to     *)
(* previous_questions, and posts again.                                    *)

SessionCategories ==
  {[type |-> Some("click"), id |-> Some(str(0))],
   [type |-> Some("Science"), id |-> Some(str(1))],
   [type |-> Some("Art"), id |-> Some(str(2))]}

InitSession ==
  /\ \E n \in 0..MaxSessionStore : questions = SeedStore(n)
  /\ categories = SeedCategories
  /\ next_id = Cardinality(questions) + 1
  /\ served = 0
  /\ request = [op |-> "none"]
  /\ response = NoResponse
  /\ pag = PagIdle
  /\ \E c \in SessionCategories :
       session = [SessionIdle EXCEPT !.quiz_category = c]

SessionBody ==
  [previous_questions |-> Some(session.previous_questions),
   quiz_category |-> Some(session.quiz_category)]

SessionCall ==
  /\ session.nulls < MaxNullCalls
  /\ \E resp \in play_quiz(SessionBody) :
       session' =
         IF resp.status = 200 /\ IsSome(resp.question)
         THEN [session EXCEPT
                 !.previous_questions = Append(@, Value(resp.question).id),
                 !.last = resp]
         ELSE [session EXCEPT !.nulls = @ + 1, !.last = resp]
  /\ UNCHANGED <<questions, categories, next_id, served, request, response, pag>>

\* the caller keeps calling until it has its answer
SpecSession == InitSession /\ [][SessionCall]_vars /\ WF_vars(SessionCall)

----------------------------------------------------------------------------
(* Properties.                                                             *)

Ids(rows) == {q.id : q \in rows}

\* the run of C1: the rows of the list at offsets off, ..., off + len - 1,
\* in the order of the list
ClaimedRun(selection, page) ==
  LET N == Len(selection)
      off == (page - 1) * QUESTIONS_PER_PAGE
      len == Min(QUESTIONS_PER_PAGE, Max(0, N - off))
      at == SortedSeq({i \in off..(off + len - 1) : i >= 0 /\ i < N})
  IN [k \in 1..Len(at) |-> format(selection[at[k] + 1])]

\* C1: for every list of N questions and every integer page p,
\* paginate_questions returns the run of the list's elements that starts at
\* offset (p-1)*10 and has length min(10, max(0, N-(p-1)*10)), in the
\* original order.
C1_PaginationRun ==
  pag.called => pag.result = ClaimedRun(pag.selection, PageOf(pag.args))

\* C1 for the pages from 1 on, where the code agrees with it
C1_PaginationRunFromPageOne ==
  (pag.called /\ PageOf(pag.args) >= 1) =>
    /\ pag.result = ClaimedRun(pag.selection, PageOf(pag.args))
    /\ Len(pag.result) =
         Min(QUESTIONS_PER_PAGE,
             Max(0, Len(pag.selection) - (PageOf(pag.args) - 1) * QUESTIONS_PER_PAGE))

\* a page below 1 for which the slice is not empty
C1_NegativePageServed ==
  pag.called /\ PageOf(pag.args) < 1 /\ pag.result # <<>>


\* C2: DELETE /questions/{id} is answered 422 when no stored question has
\* that id; when one has, it is answered 200 with deleted = id and the store
\* holds no question with that id afterwards, so that a DELETE of the same id
\* right after it is answered 422.
C2_Delete ==
  [][request'.op = "delete_question" =>
       LET id == request'.question_id
       IN /\ id \notin Ids(questions) => response'.status = 422
          /\ id \in Ids(questions) =>
               /\ response'.status = 200
               /\ response'.deleted = id
               /\ id \notin Ids(questions')
          /\ (/\ request.op = "delete_question"
              /\ response.status = 200
              /\ request.question_id = id) => response'.status = 422]_vars

\* a DELETE of an id the sequence has given out and a DELETE before it removed
C2_DeletedTwice ==
  /\ request.op = "delete_question"
  /\ response.status = 422
  /\ request.question_id >= 1
  /\ request.question_id < next_id
  /\ served = 2

\* a POST /questions body that carries all four fields
HasAddFields(body) == \A k \in AddFields : IsSome(body[k])

\* what C3 says of a POST /questions that is answered 200
AddStored(rows, rows2, resp) ==
  /\ resp.status = 200
  /\ Cardinality(rows2) = Cardinality(rows) + 1
  /\ resp.created \notin Ids(rows)
  /\ \E q \in rows2 \ rows :
       /\ q.id = resp.created
       /\ \A r \in rows2 : r.id = q.id => r = q
  /\ resp.total_questions = Cardinality(rows2)

\* C3 as stated: POST /questions with a body carrying all four fields is
\* answered 200, the number of stored questions grows by exactly 1, 'created'
\* is the id of the newly stored row, an id no other stored question has, and
\* total_questions is the number of stored questions after the insert.
C3_AddAnswered200 ==
  [][(request'.op = "add_question" /\ HasAddFields(request'.body)) =>
       AddStored(questions, questions', response')]_vars

\* C3 as amended: so it is when the store takes the row (difficulty is an
\* integer); when the insert fails the answer is 422 and the store is as it was.
C3_AddStoredOrRejected ==
  [][(request'.op = "add_question" /\ HasAddFields(request'.body)) =>
       LET body == request'.body
       IN IF IntegerColumnAccepts(Value(body.difficulty))
          THEN /\ AddStored(questions, questions', response')
               /\ \E q \in questions' \ questions :
                    /\ q.question = Value(body.question)
                    /\ q.answer = Value(body.answer)
                    /\ q.category = AsText(Value(body.category))
          ELSE /\ response'.status = 422
               /\ questions' = questions]_vars

\* a question was added to a store that a DELETE had taken a question from
C3_AddedAfterDelete ==
  /\ request.op = "add_question"
  /\ response.status = 200
  /\ response.created \in Ids(questions)
  /\ Cardinality(questions) < next_id - 1

\* C4: a POST /questions whose body lacks one of question, answer, category,
\* difficulty, and a POST /quizzes whose body lacks previous_questions or
\* quiz_category, are answered 422 and leave the questions as they were.
C4_MissingField ==
  [][/\ (request'.op = "add_question" /\ ~HasAddFields(request'.body)) =>
          (response'.status = 422 /\ questions' = questions)
     /\ (/\ request'.op = "play_quiz"
         /\ ~(/\ IsSome(request'.body.previous_questions)
              /\ IsSome(request'.body.quiz_category))) =>
          (response'.status = 422 /\ questions' = questions)]_vars

\* a POST /questions that lacks only 'difficulty' was refused on a store with rows
C4_MissingDifficulty ==
  /\ request.op = "add_question"
  /\ ~IsSome(request.body.difficulty)
  /\ \A k \in AddFields \ {"difficulty"} : IsSome(request.body[k])
  /\ response.status = 422
  /\ questions # {}


\* a POST /quizzes body that carries both fields
HasQuizFields(body) ==
  IsSome(body.previous_questions) /\ IsSome(body.quiz_category)

\* ... and whose quiz_category carries the type, and the id where the type
\* is not "click"
WellFormedQuiz(body) ==
  /\ HasQuizFields(body)
  /\ IsSome(Value(body.quiz_category).type)
  /\ \/ Value(Value(body.quiz_category).type) = "click"
     \/ IsSome(Value(body.quiz_category).id)

\* the candidate set of C5
Candidates(body) ==
  LET asked == Range(Value(body.previous_questions))
      quiz_category == Value(body.quiz_category)
      unasked == {q \in questions : q.id \notin asked}
  IN IF quiz_category.type = Some("click") THEN unasked
     ELSE {q \in unasked : quiz_category.id = Some(q.category)}

\* the answer is drawn from the candidate set, any member of it can be the
\* answer, and the answer is null, with 200, when the set is empty
DrawnFromCandidates(body, resp) ==
  /\ resp.status = 200
  /\ Candidates(body) = {} => resp.question = None
  /\ Candidates(body) # {} =>
       /\ IsSome(resp.question)
       /\ \E q \in Candidates(body) : Value(resp.question) = format(q)
  /\ \A q \in Candidates(body) :
       Ok([question |-> Some(format(q))]) \in play_quiz(body)

\* C5 as stated: POST /quizzes with both fields present returns a member of
\* the stored questions minus those whose id is in previous_questions, of
\* the category quiz_category.id unless quiz_category.type is "click"; every
\* member of that candidate set can be returned; when the set is empty the
\* answer is 200 with question = null, never an error.
C5_QuizBothFields ==
  (request.op = "play_quiz" /\ HasQuizFields(request.body)) =>
    DrawnFromCandidates(request.body, response)

\* C5 as amended: so it is when quiz_category carries 'type', and 'id' unless
\* the type is "click"; a quiz_category without them is answered 422.
C5_QuizDraw ==
  (request.op = "play_quiz" /\ HasQuizFields(request.body)) =>
    IF WellFormedQuiz(request.body)
    THEN DrawnFromCandidates(request.body, response)
    ELSE response.status = 422

\* a draw within a category, after a question of that category was asked,
\* with more than one candidate left
C5_DrawnFromCategory ==
  /\ request.op = "play_quiz"
  /\ WellFormedQuiz(request.body)
  /\ Value(Value(request.body.quiz_category).type) # "click"
  /\ \E q \in questions :
       /\ q.id \in Range(Value(request.body.previous_questions))
       /\ q.category = Value(Value(request.body.quiz_category).id)
  /\ Cardinality(Candidates(request.body)) > 1
  /\ Cardinality(Candidates(request.body)) < Cardinality(questions) - 1
  /\ IsSome(response.question)

\* the texts that hold term as a substring, letter case aside
RECURSIVE IsPrefix(_, _)
IsPrefix(t, s) ==
  t = <<>> \/ (s # <<>> /\ Head(t) = Head(s) /\ IsPrefix(Tail(t), Tail(s)))

RECURSIVE IsSubstring(_, _)
IsSubstring(t, s) ==
  IsPrefix(t, s) \/ (s # <<>> /\ IsSubstring(t, Tail(s)))

SubstringMatches(term) ==
  {q \in questions : IsSubstring(Lower(term), Lower(q.question))}

\* C6: POST /questions/search with an empty or absent searchTerm is answered
\* 404; with a term that is a case-insensitive substring of the text of at
\* least one stored question it is answered 200 with all the matching
\* questions in 'questions' and total_questions the size of the match set;
\* with a non-empty term that matches no question it is answered 404.
C6_Search ==
  request.op = "search_questions" =>
    LET search_term == request.body.searchTerm
    IN IF ~IsSome(search_term) \/ search_term = Some(<<>>)
       THEN response.status = 404
       ELSE LET matches == SubstringMatches(Value(search_term))
            IN IF matches = {} THEN response.status = 404
               ELSE /\ response.status = 200
                    /\ Range(response.questions) = {format(q) : q \in matches}
                    /\ response.total_questions = Cardinality(matches)

\* C6 for the wildcard part alone: a non-empty term that is a substring of
\* no stored question's text is answered 404.
C6_NoSubstringNotFound ==
  (/\ request.op = "search_questions"
   /\ IsSome(request.body.searchTerm)
   /\ request.body.searchTerm # Some(<<>>)
   /\ SubstringMatches(Value(request.body.searchTerm)) = {}) =>
    response.status = 404

\* C7: GET /categories/{id}/questions is answered 404 when id is the id of no
\* stored category, and else 200, for any page and whether or not a question
\* has the category, with currentCategory = id, every returned question of
\* that category, and total_questions the number of stored questions of it.
C7_ByCategory ==
  request.op = "retrieve_questions_by_category" =>
    LET id == request.category_id
    IN IF id \notin {c.id : c \in categories}
       THEN response.status = 404
       ELSE /\ response.status = 200
            /\ response.currentCategory = Some(id)
            /\ \A i \in 1..Len(response.questions) :
                 /\ response.questions[i].category = str(id)
                 /\ \E q \in questions : response.questions[i] = format(q)
            /\ response.total_questions =
                 Cardinality({q \in questions : q.category = str(id)})

\* a listing of a category that some questions have and others have not
C7_CategoryListed ==
  /\ request.op = "retrieve_questions_by_category"
  /\ response.status = 200
  /\ Len(response.questions) > 1
  /\ response.total_questions < Cardinality(questions)


Listings == {"retrieve_questions", "search_questions", "retrieve_questions_by_category"}

\* C8 as stated: GET /questions, POST /questions/search and
\* GET /categories/{id}/questions answer 404 whenever the pagination helper
\* yields an empty slice; none answers 200 with an empty 'questions' list.
C8_EmptySliceNotFound ==
  request.op \in Listings =>
    ~(response.status = 200 /\ response.questions = <<>>)

\* C8 as amended: GET /questions answers 404 exactly when the slice is empty.
\* POST /questions/search answers 404 exactly when the term is empty or
\* absent or matches no question, GET /categories/{id}/questions exactly when
\* id is the id of no stored category, and both answer 200 with the slice,
\* empty or not, otherwise.
C8_EmptySliceByHandler ==
  /\ request.op = "retrieve_questions" =>
       LET slice == paginate_questions(request.args, OrderById(questions))
       IN /\ response.status = (IF slice = <<>> THEN 404 ELSE 200)
          /\ response.questions = slice
  /\ request.op = "search_questions" =>
       LET term == request.body.searchTerm
           found == IF IsSome(term) /\ term # Some(<<>>)
                    THEN SearchMatches(Value(term)) ELSE {}
       IN /\ response.status = (IF found = {} THEN 404 ELSE 200)
          /\ found # {} =>
               response.questions = paginate_questions(request.args, OrderById(found))
  /\ request.op = "retrieve_questions_by_category" =>
       LET known == request.category_id \in {c.id : c \in categories}
           found == {q \in questions : q.category = str(request.category_id)}
       IN /\ response.status = (IF known THEN 200 ELSE 404)
          /\ known =>
               response.questions = paginate_questions(request.args, OrderById(found))

\* a search with matches, answered 200 with no question on the page asked for
C8_EmptyPageServed ==
  /\ request.op = "search_questions"
  /\ response.status = 200
  /\ response.questions = <<>>
  /\ response.total_questions > 0

\* C9: the categories never change, the fields of a stored question never
\* change, and the questions change only by a POST /questions answered 200,
\* which adds exactly one question, or a DELETE /questions/{id} answered 200,
\* which removes exactly the question with that id; every other request, and
\* every request answered 404 or 422, leaves the store as it was.
C9_Frame ==
  [][/\ categories' = categories
     /\ \A q \in questions : \A r \in questions' : r.id = q.id => r = q
     /\ IF request'.op = "add_question" /\ response'.status = 200
        THEN /\ questions \subseteq questions'
             /\ Cardinality(questions' \ questions) = 1
        ELSE IF request'.op = "delete_question" /\ response'.status = 200
        THEN questions' = {q \in questions : q.id # request'.question_id}
             /\ Cardinality(questions \ questions') = 1
        ELSE questions' = questions
     /\ response'.status \in {404, 422} => questions' = questions]_vars

\* a POST /questions the store refused, on a store with rows
C9_RefusedAdd ==
  /\ request.op = "add_question"
  /\ HasAddFields(request.body)
  /\ response.status = 422
  /\ questions # {}
  /\ served = 2

----------------------------------------------------------------------------
(* The quiz session.                                                       *)

\* the candidate set the session starts with
InitialCandidates ==
  IF Value(session.quiz_category.type) = "click" THEN questions
  ELSE {q \in questions : q.category = Value(session.quiz_category.id)}

NoRepeat(s) == \A i, j \in 1..Len(s) : i # j => s[i] # s[j]

SessionSafe ==
  LET K == Cardinality(InitialCandidates)
      draws == Len(session.previous_questions)
  IN /\ NoRepeat(session.previous_questions)
     /\ Range(session.previous_questions) \subseteq Ids(InitialCandidates)
     /\ session.last.status \in {0, 200}
     /\ draws <= K
     /\ draws < K => (session.nulls = 0 /\ Ok([question |-> None]) \notin play_quiz(SessionBody))
     /\ draws = K => play_quiz(SessionBody) = {Ok([question |-> None])}
     /\ session.nulls > 0 => (draws = K /\ session.last = Ok([question |-> None]))

\* C10: a caller that starts with previous_questions empty and appends the id
\* of each question it gets never gets a question twice, gets null after
\* exactly K questions, K the size of the candidate set at the start, gets
\* null on every call after that, and always comes to that end.
C10_Session == [](SessionSafe) /\ <>(session.nulls > 0)

\* a session of more than one question that has ended and called again
C10_SessionEnded ==
  /\ Len(session.previous_questions) > 1
  /\ Cardinality(InitialCandidates) < Cardinality(questions)
  /\ session.nulls > 1

====
